---- MODULE Spec2Model ----
(***************************************************************************)
(* Model of writeWithAssistant.py: a text client of an assistant service.  *)
(* main loads OAuth2 credentials, opens a channel, creates one             *)
(* SampleTextAssistant and either sends one query (--input) or prompts in  *)
(* a loop.  assist sends one request and folds over the streamed           *)
(* replies, keeping   the last non-empty conversation state (in the        *)
(* session) and the last non-empty display text (returned).                *)
(***************************************************************************)
EXTENDS Integers, Sequences, FiniteSets, TLC

(* ---------- bounds of the model ---------- *)
\* most response messages one exchange delivers
MaxMsgs == 2
\* most lines the interactive loop reads before the input ends
MaxTurns == 2

(* ---------- Python values ---------- *)
None == [py |-> "None"]
PyBool(b) == [py |-> "bool", v |-> b]
PyStr(s) == [py |-> "str", v |-> s]
PyBytes(s) == [py |-> "bytes", v |-> s]

\* Python truth value testing, as used by `if x:`
Truthy(x) ==
    CASE x.py = "None" -> FALSE
      [] x.py = "bool" -> x.v
      [] x.py = "str" -> x.v # ""
      [] x.py = "bytes" -> x.v # ""

\* '%s' % x
Format(x) ==
    CASE x.py = "None" -> "None"
      [] x.py = "bool" -> (IF x.v THEN "True" ELSE "False")
      [] x.py = "str" -> x.v
      [] x.py = "bytes" -> x.v

(* ---------- the environment's values ---------- *)
\* conversation-state blobs the service may issue (non-empty)
StateBlobs == {"S1", "S2"}
\* display texts the service may reply with (non-empty)
ReplyTexts == {"R1", "R2"}
\* lines the user may type at the prompt
Queries == {"hello", "bye"}
\* what the credentials file may be
CredFiles == {"absent", "malformed", "rejected", "valid"}
\* values of the --input option: its default False, or a string
InputValues == {PyBool(FALSE)} \cup {PyStr(s) : s \in Queries \cup {""}}
\* a response message: the two fields of dialog_state_out that assist reads;
\* an unset protobuf field reads as the empty value
Responses ==
    [conversation_state : StateBlobs \cup {""},
     supplemental_display_text : ReplyTexts \cup {""}]

\* config.writtenAssist['promptOut']
PromptOut == "<assistant>"

VARIABLES
    pc,                   \* position of main
    credFile,             \* what the credentials path holds
    input,                \* the --input option
    channel,              \* grpc_channel was created
    session,              \* the SampleTextAssistant was created
    conversation_state,   \* self.conversation_state
    text_query,           \* text_query of main
    display_text,         \* display_text of assist, then of main
    exc,                  \* the exception in flight: "none", "RpcError", "Abort"
    outcome,              \* how main ended: "running", "returned", "raised"
    errorsLogged,         \* logging.error records written
    requests,             \* every AssistRequest sent, in order
    texts,                \* supplemental_display_text of each message of the
                          \* current exchange, in order
    gotState,             \* a message of the current exchange carried a state
    lastReceived,         \* the last non-empty conversation state received
    preState,             \* self.conversation_state when the current call began
    lines,                \* the lines click.prompt returned, in order
    prompts,              \* number of click.prompt calls
    printed,              \* the lines click.echo wrote, in order
    replies,              \* what each completed assist call returned and left
    mode                  \* "none", "single" or "interactive"

vars == <<pc, credFile, input, channel, session, conversation_state, text_query,
          display_text, exc, outcome, errorsLogged, requests, texts,
          gotState, lastReceived, preState, lines, prompts, printed, replies, mode>>

sessionVars == <<conversation_state, text_query, display_text, requests,
                 texts, gotState, lastReceived, preState, lines, prompts, printed,
                 replies>>

Init ==
    /\ pc = "open"
    /\ credFile \in CredFiles
    /\ input \in InputValues
    /\ channel = FALSE
    /\ session = FALSE
    /\ conversation_state = None
    /\ text_query = None
    /\ display_text = None
    /\ exc = "none"
    /\ outcome = "running"
    /\ errorsLogged = 0
    /\ requests = <<>>
    /\ texts = <<>>
    /\ gotState = FALSE
    /\ lastReceived = None
    /\ preState = None
    /\ lines = <<>>
    /\ prompts = 0
    /\ printed = <<>>
    /\ replies = <<>>
    /\ mode = "none"

(* ---------- main: loading the credentials ---------- *)
\* the except clause: two error records, then return
CredentialsError ==
    /\ errorsLogged' = errorsLogged + 2
    /\ outcome' = "returned"
    /\ pc' = "done"

\* open(credentials, 'r')
OpenCredentials ==
    /\ pc = "open"
    /\ IF credFile = "absent"
         THEN CredentialsError
         ELSE pc' = "parse" /\ UNCHANGED <<errorsLogged, outcome>>
    /\ UNCHANGED <<credFile, input, channel, session, exc, mode>>
    /\ UNCHANGED sessionVars

\* Credentials(token=None, **json.load(f))
ParseCredentials ==
    /\ pc = "parse"
    /\ IF credFile = "malformed"
         THEN CredentialsError
         ELSE pc' = "refresh" /\ UNCHANGED <<errorsLogged, outcome>>
    /\ UNCHANGED <<credFile, input, channel, session, exc, mode>>
    /\ UNCHANGED sessionVars

\* variant: a rejected refresh is not noticed and main goes on
RefreshCredentials_unchecked ==
    /\ pc = "refresh"
    /\ pc' = "channel"
    /\ UNCHANGED <<credFile, input, channel, session, exc, mode, errorsLogged,
                   outcome>>
    /\ UNCHANGED sessionVars

\* credentials.refresh(http_request)
RefreshCredentials ==
    /\ pc = "refresh"
    /\ IF credFile = "rejected"
         THEN CredentialsError
         ELSE pc' = "channel" /\ UNCHANGED <<errorsLogged, outcome>>
    /\ UNCHANGED <<credFile, input, channel, session, exc, mode>>
    /\ UNCHANGED sessionVars

\* secure_authorized_channel(credentials, http_request, api_endpoint)
CreateChannel ==
    /\ pc = "channel"
    /\ channel' = TRUE
    /\ pc' = "session"
    /\ UNCHANGED <<credFile, input, session, exc, outcome, errorsLogged, mode>>
    /\ UNCHANGED sessionVars

\* with SampleTextAssistant(...) as assistant: __init__ and __enter__
EnterSession ==
    /\ pc = "session"
    /\ session' = TRUE
    /\ conversation_state' = None
    /\ pc' = "select"
    /\ UNCHANGED <<credFile, input, channel, exc, outcome, errorsLogged, mode,
                   text_query, display_text, requests, texts, gotState,
                   lastReceived, preState, lines, prompts, printed, replies>>

(* ---------- leaving the with block ---------- *)
\* variant: __exit__ returns True on an exception, which swallows it
exit_return_true(e) ==
    IF e # "none" THEN PyBool(TRUE) ELSE None

\* SampleTextAssistant.__exit__(etype, e, traceback)
exit_return(e) ==
    IF e # "none" THEN PyBool(FALSE) ELSE None

\* the with statement around the session: an exception leaving the block is
\* swallowed only if __exit__ returns a true value; nothing follows the block
WithExit(e) ==
    IF e # "none" /\ ~Truthy(exit_return(e)) THEN "raised" ELSE "returned"

(* ---------- main: the two modes ---------- *)
\* `if input:` picks the single query, else the loop
SelectMode ==
    /\ pc = "select"
    /\ IF Truthy(input)
         THEN /\ mode' = "single"
              /\ text_query' = input
              /\ pc' = "assist"
         ELSE /\ mode' = "interactive"
              /\ text_query' = text_query
              /\ pc' = "prompt"
    /\ UNCHANGED <<credFile, input, channel, session, exc, outcome, errorsLogged,
                   conversation_state, display_text, requests, texts, gotState,
                   lastReceived, preState, lines, prompts, printed, replies>>

\* text_query = click.prompt(...) returns a line
Prompt ==
    /\ pc = "prompt"
    /\ Len(lines) < MaxTurns
    /\ \E q \in Queries :
         /\ text_query' = PyStr(q)
         /\ lines' = Append(lines, q)
    /\ prompts' = prompts + 1
    /\ pc' = "assist"
    /\ UNCHANGED <<credFile, input, channel, session, exc, outcome, errorsLogged,
                   mode, conversation_state, display_text, requests, texts,
                   gotState, lastReceived, preState, printed, replies>>

\* click.prompt raises Abort (the input ended, or the user interrupted); it
\* leaves the with block and main
PromptAbort ==
    /\ pc = "prompt"
    /\ prompts' = prompts + 1
    /\ exc' = "Abort"
    /\ outcome' = WithExit("Abort")
    /\ pc' = "done"
    /\ UNCHANGED <<credFile, input, channel, session, errorsLogged, mode,
                   conversation_state, text_query, display_text, requests, texts,
                   gotState, lastReceived, preState, lines, printed, replies>>

(* ---------- SampleTextAssistant.assist ---------- *)
\* display_text = None; self.assistant.Assist(iter_assist_requests(), deadline)
AssistCall ==
    /\ pc = "assist"
    /\ display_text' = None
    /\ texts' = <<>>
    /\ gotState' = FALSE
    /\ preState' = conversation_state
    /\ pc' = "send"
    /\ UNCHANGED <<credFile, input, channel, session, exc, outcome, errorsLogged,
                   mode, conversation_state, text_query, requests, lastReceived,
                   lines, prompts, printed, replies>>

\* variant: the held state is never copied into the request
DialogStateIn_empty(held) == ""

\* the conversation_state field of dialog_state_in: b'' unless a state is held
DialogStateIn(held) ==
    IF Truthy(held) THEN held.v ELSE ""

\* the generator's body, run when the stub pulls the one request of the call
iter_assist_requests ==
    /\ pc = "send"
    /\ requests' = Append(requests,
                          [text_query |-> text_query.v,
                           conversation_state |-> DialogStateIn(conversation_state)])
    /\ pc' = "recv"
    /\ UNCHANGED <<credFile, input, channel, session, exc, outcome, errorsLogged,
                   mode, conversation_state, text_query, display_text, texts,
                   gotState, lastReceived, preState, lines, prompts, printed,
                   replies>>

\* variant: a message without a state clears the held state
StoreState_clear(held, resp) ==
    IF resp.conversation_state # ""
      THEN PyBytes(resp.conversation_state)
      ELSE None

\* if resp.dialog_state_out.conversation_state: self.conversation_state = ...
StoreState(held, resp) ==
    IF resp.conversation_state # ""
      THEN PyBytes(resp.conversation_state)
      ELSE held

\* variant: the first display text of the exchange is kept, not the last
StoreText_first(text, resp) ==
    IF resp.supplemental_display_text # "" /\ text = None
      THEN PyStr(resp.supplemental_display_text)
      ELSE text

\* if resp.dialog_state_out.supplemental_display_text: display_text = ...
StoreText(text, resp) ==
    IF resp.supplemental_display_text # ""
      THEN PyStr(resp.supplemental_display_text)
      ELSE text

\* one iteration of `for resp in self.assistant.Assist(...)`
RecvResponse ==
    /\ pc = "recv"
    /\ Len(texts) < MaxMsgs
    /\ \E resp \in Responses :
         /\ conversation_state' = StoreState(conversation_state, resp)
         /\ display_text' = StoreText(display_text, resp)
         /\ texts' = Append(texts, resp.supplemental_display_text)
         /\ gotState' = (gotState \/ resp.conversation_state # "")
         /\ lastReceived' = IF resp.conversation_state = ""
                              THEN lastReceived
                              ELSE PyBytes(resp.conversation_state)
    /\ UNCHANGED <<pc, credFile, input, channel, session, exc, outcome,
                   errorsLogged, mode, text_query, requests, preState, lines,
                   prompts, printed, replies>>

\* the stream ends: return display_text
AssistReturn ==
    /\ pc = "recv"
    /\ replies' = Append(replies,
                         [reply |-> display_text, state |-> conversation_state])
    /\ pc' = "echo"
    /\ UNCHANGED <<credFile, input, channel, session, exc, outcome, errorsLogged,
                   mode, conversation_state, text_query, display_text, requests,
                   texts, gotState, lastReceived, preState, lines, prompts,
                   printed>>

\* the stream raises grpc.RpcError (deadline exceeded, transport failure);
\* nothing catches it: it leaves assist, the with block and main
AssistFail ==
    /\ pc = "recv"
    /\ exc' = "RpcError"
    /\ outcome' = WithExit("RpcError")
    /\ pc' = "done"
    /\ UNCHANGED <<credFile, input, channel, session, errorsLogged, mode,
                   conversation_state, text_query, display_text, requests, texts,
                   gotState, lastReceived, preState, lines, prompts, printed,
                   replies>>

(* ---------- main: printing the reply ---------- *)
\* variant: the loop prints the reply without the output label
EchoLine_bare(m, text) == Format(text)

\* the line click.echo writes in each mode
EchoLine(m, text) ==
    IF m = "single"
      THEN Format(text)
      ELSE PromptOut \o (" " \o Format(text))

\* variant: the else is missing and the single query falls into the loop
AfterEcho_loop(m) == "prompt"

\* where main goes after click.echo: out of the with block, or round the loop
AfterEcho(m) ==
    IF m = "single" THEN "done" ELSE "prompt"

Echo ==
    /\ pc = "echo"
    /\ printed' = Append(printed, EchoLine(mode, display_text))
    /\ pc' = AfterEcho(mode)
    /\ outcome' = IF pc' = "done" THEN WithExit("none") ELSE outcome
    /\ UNCHANGED <<credFile, input, channel, session, exc, errorsLogged, mode,
                   conversation_state, text_query, display_text, requests, texts,
                   gotState, lastReceived, preState, lines, prompts, replies>>

Next ==
    \/ OpenCredentials
    \/ ParseCredentials
    \/ RefreshCredentials
    \/ CreateChannel
    \/ EnterSession
    \/ SelectMode
    \/ Prompt
    \/ PromptAbort
    \/ AssistCall
    \/ iter_assist_requests
    \/ RecvResponse
    \/ AssistReturn
    \/ AssistFail
    \/ Echo

Spec == Init /\ [][Next]_vars


(* ====================================================================== *)
(* Properties                                                              *)
(* ====================================================================== *)

\* the last non-empty entry of a sequence of strings, None if there is none
RECURSIVE LastNonEmpty(_)
LastNonEmpty(seq) ==
    IF seq = <<>> THEN None
    ELSE IF seq[Len(seq)] # "" THEN PyStr(seq[Len(seq)])
    ELSE LastNonEmpty(SubSeq(seq, 1, Len(seq) - 1))

\* the bytes a held state stands for on the wire
WireState(held) == IF held = None THEN "" ELSE held.v

\* a call has sent its request and has not been followed by another call
CallInProgressOrOver ==
    pc \in {"recv", "echo"} \/ (pc = "done" /\ exc = "RpcError")

\* C1 (carry-forward law): at every moment the held conversation_state is the
\* last non-empty conversation state received in any message so far (None if
\* none was), and while no message of the current exchange has carried a
\* state the held state is the one the call began with.
CarryForwardLaw ==
    /\ conversation_state = lastReceived
    /\ ~gotState => conversation_state = preState

\* C1 witness: a second call has returned without any message carrying a
\* state, and the state of the first call is still held.
CarryForwardWitness ==
    /\ pc = "echo"
    /\ Len(replies) = 2
    /\ Len(texts) = MaxMsgs
    /\ ~gotState
    /\ conversation_state = PyBytes("S2")
    /\ replies[1].state = PyBytes("S2")

\* C2 (as claimed): after a failed assist call the held conversation_state is
\* the one from before the call, whatever was received before the failure.
NoPartialUpdateOnFailure ==
    exc = "RpcError" => conversation_state = preState

\* C3: the request of a call carries the empty state when the session held
\* none at the start of the call, and otherwise exactly the held state.
RequestCarriesHeldState ==
    CallInProgressOrOver =>
        /\ requests # <<>>
        /\ requests[Len(requests)].conversation_state = WireState(preState)
        /\ (preState = None <=> requests[Len(requests)].conversation_state = "")

\* C3 witness: the second request was sent while a state was held, and the
\* exchange has since replaced the held state.
RequestCarriesHeldStateWitness ==
    /\ pc = "recv"
    /\ Len(requests) = 2
    /\ preState = PyBytes("S1")
    /\ conversation_state = PyBytes("S2")
    /\ requests[2].conversation_state = "S1"

\* C4 (as claimed): a call that returned no display text prints a blank reply:
\* nothing in single-shot mode, the output label and no reply text in the loop.
AbsentReplyPrintsBlank ==
    \A i \in 1..Len(printed) :
        replies[i].reply = None =>
            printed[i] = (IF mode = "single" THEN "" ELSE PromptOut \o " ")

\* C5: what a completed assist call returns is the last non-empty display text
\* of the messages of its own exchange, None if there is none, whichever
\* messages carried a state; completing is not an error.
ReturnsLastTextOfExchange ==
    pc = "echo" =>
        /\ display_text = LastNonEmpty(texts)
        /\ replies[Len(replies)].reply = LastNonEmpty(texts)
        /\ exc = "none"

\* C5 witness: the first call returned R1; the second call's exchange carried
\* R1, then R2, then nothing more and the call returned.
ReturnsLastTextWitness ==
    /\ pc = "echo"
    /\ Len(replies) = 2
    /\ replies[1].reply = PyStr("R1")
    /\ texts = <<"R1", "R2">>
    /\ gotState

\* C6: when loading the credentials fails, an error is logged, no channel and
\* no session is created, no request is ever sent, and main returns.
CredentialFailureIsClean ==
    credFile # "valid" =>
        /\ pc \in {"open", "parse", "refresh", "done"}
        /\ ~channel /\ ~session
        /\ requests = <<>> /\ prompts = 0 /\ mode = "none"
        /\ pc = "done" =>
              errorsLogged > 0 /\ outcome = "returned" /\ exc = "none"

\* C6 witness: the refresh was rejected and main has ended.
CredentialFailureWitness ==
    pc = "done" /\ credFile = "rejected" /\ errorsLogged = 2

\* C7: in the loop the calls carry the lines in input order, one call per
\* line; a call is made only when every earlier call has returned and its
\* reply is printed; each request after the first carries the state held after
\* the previous call; the replies are printed in order behind the label.
InteractiveOrder ==
    mode = "interactive" =>
        /\ Len(requests) <= Len(lines) /\ Len(lines) <= Len(requests) + 1
        /\ \A i \in 1..Len(requests) : requests[i].text_query = lines[i]
        /\ Len(printed) <= Len(replies) /\ Len(replies) <= Len(requests)
        /\ Len(lines) <= Len(printed) + 1
        /\ \A i \in 2..Len(requests) :
              requests[i].conversation_state = WireState(replies[i - 1].state)
        /\ \A i \in 1..Len(printed) :
              printed[i] = PromptOut \o " " \o Format(replies[i].reply)

\* C7 witness: two lines were read, both calls returned and were printed, and
\* the second request carried the state the first call left.
InteractiveOrderWitness ==
    /\ mode = "interactive"
    /\ lines = <<"hello", "bye">>
    /\ Len(printed) = 2
    /\ requests[2].conversation_state = "S1"
    /\ printed = <<PromptOut \o " R1", PromptOut \o " R2">>

SuppliedTextSelectsSingleShot ==
    mode # "none" => (mode = "single" <=> input.py = "str")

\* C10: once an assist call has failed, the failure has left the with block
\* and main, nothing was printed for that turn, and no request, prompt or
\* printed line is added afterwards.
FailFast ==
    /\ [](exc = "RpcError" =>
            /\ pc = "done" /\ outcome = "raised"
            /\ Len(printed) = Len(requests) - 1
            /\ Len(replies) = Len(requests) - 1)
    /\ [][exc = "RpcError" =>
            UNCHANGED <<requests, prompts, printed, lines>>]_vars

\* C10 witness: in the loop the second call failed after the first was
\* answered and printed.
FailFastWitness ==
    /\ exc = "RpcError"
    /\ mode = "interactive"
    /\ Len(requests) = 2
    /\ Len(printed) = 1
    /\ Len(texts) = 1

====
